---- MODULE Spec2Model ----
(***************************************************************************)
(* Model of the SYCL tensor-core joint_matrix layer (matrix-tensorcore.hpp) *)
(* and of the unified joint_matrix API (matrix-unified.hpp).  Every        *)
(* template instantiation is compile-time; a behaviour is one call of one  *)
(* operation with template/runtime arguments drawn from small sets, and    *)
(* the state after the call records what the call did: the intrinsics it  *)
(* issued (with the storage words each operand is accessed as), its       *)
(* outcome, and the fragment values before and after.  The same holds    *)
(* for the sub-group algorithms (group_algorithm.hpp), round_to_tf32 and   *)
(* the HIP peer-access entry points (usm_p2p.cpp); a masked joint_reduce   *)
(* call is modelled lane iteration by lane iteration.                      *)
(***************************************************************************)
EXTENDS Integers, Sequences, FiniteSets, TLC

VARIABLES pc, api, op, ctx, call, outcome, issued, vA, vB, vC, vD, cDesc, dDesc,
          mem, copy, p2p, tf, grp

vars == <<pc, api, op, ctx, call, outcome, issued, vA, vB, vC, vD, cDesc,
          dDesc, mem, copy, p2p, tf, grp>>

\* fragment values and descriptors of the matrix calls
matVars == <<vA, vB, vC, vD, cDesc, dDesc>>
\* memory written by a matrix store, async copy, peer access, tf32 rounding,
\* sub-group reductions
extVars == <<mem, copy, p2p, tf, grp>>

\* ---------------------------------------------------------------- inputs
MaxVal == 1
Vals == 0..MaxVal
\* value of a fragment no instruction has written (indeterminate)
Indet == -1

Types == {"bfloat16", "half", "double", "uint16_t", "float", "int8_t",
          "uint8_t", "int32_t"}
Uses == {"a", "b", "accumulator"}
Dims == {4, 8, 16, 32}
\* enum class matrix_layout { row_major, col_major, packed_a, packed_b };
Layouts == {"row_major", "col_major", "packed_a", "packed_b"}
RowCol == {"row_major", "col_major"}
\* where the code is compiled/run: host, NVPTX device, another device (SPIR-V)
Ctxs == {"host", "nvptx", "spir"}
MadMN == {8, 16, 32}
MadK == {4, 16}
\* stride (leading dimension) arguments, in elements
Strides == {16, 32}

\* ------------------------------------------------------- layout ids
\* get_layout_id<Layout>() (only specialised for row_major / col_major)
LayoutId(l) == IF l = "row_major" THEN 0 ELSE 1

\* get_layout_pair_id<LayoutA, LayoutB>()
\* mutant: pair ids 1 and 2 exchanged
LayoutPairIdSwapped(la, lb) ==
  CASE la = "row_major" /\ lb = "row_major" -> 0
    [] la = "row_major" /\ lb = "col_major" -> 2
    [] la = "col_major" /\ lb = "row_major" -> 1
    [] la = "col_major" /\ lb = "col_major" -> 3

LayoutPairId(la, lb) ==
  CASE la = "row_major" /\ lb = "row_major" -> 0
    [] la = "row_major" /\ lb = "col_major" -> 1
    [] la = "col_major" /\ lb = "row_major" -> 2
    [] la = "col_major" /\ lb = "col_major" -> 3

\* ------------------------------------------------- fragment table
\* __SYCL_JOINT_MATRIX_OVERLOAD(_ARR)(type, use, M, N, frag_type, frag_size)
\* expansions: key (t, use, r, c) -> storage type ft, slot count n
Ov(t, u, r, c, ft, n) == [t |-> t, use |-> u, r |-> r, c |-> c, ft |-> ft, n |-> n]

\* mutant: bfloat16 a 8x16 declared with 8 slots
DeclBf16Slots ==
  { Ov("bfloat16", "a", 16, 16, "bfloat16", 8),
    Ov("bfloat16", "b", 16, 16, "bfloat16", 8),
    Ov("bfloat16", "a", 8, 16, "bfloat16", 8),
    Ov("bfloat16", "b", 16, 32, "bfloat16", 16),
    Ov("bfloat16", "a", 32, 16, "bfloat16", 16),
    Ov("bfloat16", "b", 16, 8, "bfloat16", 4),
    Ov("half", "a", 8, 16, "half", 16),
    Ov("half", "b", 16, 32, "half", 16),
    Ov("half", "accumulator", 8, 32, "half", 8),
    Ov("half", "a", 32, 16, "half", 16),
    Ov("half", "b", 16, 8, "half", 16),
    Ov("half", "accumulator", 32, 8, "half", 8),
    Ov("half", "a", 16, 16, "half", 16),
    Ov("half", "b", 16, 16, "half", 16),
    Ov("half", "accumulator", 16, 16, "half", 8),
    Ov("double", "a", 8, 4, "double", 1),
    Ov("double", "b", 4, 8, "double", 1),
    Ov("double", "accumulator", 8, 8, "double", 2),
    Ov("uint16_t", "a", 8, 16, "int32_t", 2),
    Ov("uint16_t", "b", 16, 32, "int32_t", 8),
    Ov("float", "accumulator", 8, 32, "float", 8),
    Ov("int8_t", "a", 8, 16, "int32_t", 1),
    Ov("int8_t", "b", 16, 32, "int32_t", 4),
    Ov("uint8_t", "a", 8, 16, "int32_t", 1),
    Ov("uint8_t", "b", 16, 32, "int32_t", 4),
    Ov("int32_t", "accumulator", 8, 32, "int32_t", 8),
    Ov("uint16_t", "a", 32, 16, "int32_t", 8),
    Ov("uint16_t", "b", 16, 8, "int32_t", 2),
    Ov("float", "accumulator", 32, 8, "float", 8),
    Ov("int8_t", "a", 32, 16, "int32_t", 4),
    Ov("int8_t", "b", 16, 8, "int32_t", 1),
    Ov("uint8_t", "a", 32, 16, "int32_t", 4),
    Ov("uint8_t", "b", 16, 8, "int32_t", 1),
    Ov("int32_t", "accumulator", 32, 8, "int32_t", 8),
    Ov("uint16_t", "a", 16, 16, "int32_t", 4),
    Ov("uint16_t", "b", 16, 16, "int32_t", 4),
    Ov("float", "accumulator", 16, 16, "float", 8),
    Ov("int8_t", "a", 16, 16, "int32_t", 2),
    Ov("int8_t", "b", 16, 16, "int32_t", 2),
    Ov("uint8_t", "a", 16, 16, "int32_t", 2),
    Ov("uint8_t", "b", 16, 16, "int32_t", 2),
    Ov("int32_t", "accumulator", 16, 16, "int32_t", 8) }

\* mutant: half accumulator 16x16 declared as int32_t[4]
DeclHalfAccInt32 ==
  { Ov("bfloat16", "a", 16, 16, "bfloat16", 8),
    Ov("bfloat16", "b", 16, 16, "bfloat16", 8),
    Ov("bfloat16", "a", 8, 16, "bfloat16", 4),
    Ov("bfloat16", "b", 16, 32, "bfloat16", 16),
    Ov("bfloat16", "a", 32, 16, "bfloat16", 16),
    Ov("bfloat16", "b", 16, 8, "bfloat16", 4),
    Ov("half", "a", 8, 16, "half", 16),
    Ov("half", "b", 16, 32, "half", 16),
    Ov("half", "accumulator", 8, 32, "half", 8),
    Ov("half", "a", 32, 16, "half", 16),
    Ov("half", "b", 16, 8, "half", 16),
    Ov("half", "accumulator", 32, 8, "half", 8),
    Ov("half", "a", 16, 16, "half", 16),
    Ov("half", "b", 16, 16, "half", 16),
    Ov("half", "accumulator", 16, 16, "int32_t", 4),
    Ov("double", "a", 8, 4, "double", 1),
    Ov("double", "b", 4, 8, "double", 1),
    Ov("double", "accumulator", 8, 8, "double", 2),
    Ov("uint16_t", "a", 8, 16, "int32_t", 2),
    Ov("uint16_t", "b", 16, 32, "int32_t", 8),
    Ov("float", "accumulator", 8, 32, "float", 8),
    Ov("int8_t", "a", 8, 16, "int32_t", 1),
    Ov("int8_t", "b", 16, 32, "int32_t", 4),
    Ov("uint8_t", "a", 8, 16, "int32_t", 1),
    Ov("uint8_t", "b", 16, 32, "int32_t", 4),
    Ov("int32_t", "accumulator", 8, 32, "int32_t", 8),
    Ov("uint16_t", "a", 32, 16, "int32_t", 8),
    Ov("uint16_t", "b", 16, 8, "int32_t", 2),
    Ov("float", "accumulator", 32, 8, "float", 8),
    Ov("int8_t", "a", 32, 16, "int32_t", 4),
    Ov("int8_t", "b", 16, 8, "int32_t", 1),
    Ov("uint8_t", "a", 32, 16, "int32_t", 4),
    Ov("uint8_t", "b", 16, 8, "int32_t", 1),
    Ov("int32_t", "accumulator", 32, 8, "int32_t", 8),
    Ov("uint16_t", "a", 16, 16, "int32_t", 4),
    Ov("uint16_t", "b", 16, 16, "int32_t", 4),
    Ov("float", "accumulator", 16, 16, "float", 8),
    Ov("int8_t", "a", 16, 16, "int32_t", 2),
    Ov("int8_t", "b", 16, 16, "int32_t", 2),
    Ov("uint8_t", "a", 16, 16, "int32_t", 2),
    Ov("uint8_t", "b", 16, 16, "int32_t", 2),
    Ov("int32_t", "accumulator", 16, 16, "int32_t", 8) }

Decl ==
  { Ov("bfloat16", "a", 16, 16, "bfloat16", 8),
    Ov("bfloat16", "b", 16, 16, "bfloat16", 8),
    Ov("bfloat16", "a", 8, 16, "bfloat16", 4),
    Ov("bfloat16", "b", 16, 32, "bfloat16", 16),
    Ov("bfloat16", "a", 32, 16, "bfloat16", 16),
    Ov("bfloat16", "b", 16, 8, "bfloat16", 4),
    Ov("half", "a", 8, 16, "half", 16),
    Ov("half", "b", 16, 32, "half", 16),
    Ov("half", "accumulator", 8, 32, "half", 8),
    Ov("half", "a", 32, 16, "half", 16),
    Ov("half", "b", 16, 8, "half", 16),
    Ov("half", "accumulator", 32, 8, "half", 8),
    Ov("half", "a", 16, 16, "half", 16),
    Ov("half", "b", 16, 16, "half", 16),
    Ov("half", "accumulator", 16, 16, "half", 8),
    Ov("double", "a", 8, 4, "double", 1),
    Ov("double", "b", 4, 8, "double", 1),
    Ov("double", "accumulator", 8, 8, "double", 2),
    Ov("uint16_t", "a", 8, 16, "int32_t", 2),
    Ov("uint16_t", "b", 16, 32, "int32_t", 8),
    Ov("float", "accumulator", 8, 32, "float", 8),
    Ov("int8_t", "a", 8, 16, "int32_t", 1),
    Ov("int8_t", "b", 16, 32, "int32_t", 4),
    Ov("uint8_t", "a", 8, 16, "int32_t", 1),
    Ov("uint8_t", "b", 16, 32, "int32_t", 4),
    Ov("int32_t", "accumulator", 8, 32, "int32_t", 8),
    Ov("uint16_t", "a", 32, 16, "int32_t", 8),
    Ov("uint16_t", "b", 16, 8, "int32_t", 2),
    Ov("float", "accumulator", 32, 8, "float", 8),
    Ov("int8_t", "a", 32, 16, "int32_t", 4),
    Ov("int8_t", "b", 16, 8, "int32_t", 1),
    Ov("uint8_t", "a", 32, 16, "int32_t", 4),
    Ov("uint8_t", "b", 16, 8, "int32_t", 1),
    Ov("int32_t", "accumulator", 32, 8, "int32_t", 8),
    Ov("uint16_t", "a", 16, 16, "int32_t", 4),
    Ov("uint16_t", "b", 16, 16, "int32_t", 4),
    Ov("float", "accumulator", 16, 16, "float", 8),
    Ov("int8_t", "a", 16, 16, "int32_t", 2),
    Ov("int8_t", "b", 16, 16, "int32_t", 2),
    Ov("uint8_t", "a", 16, 16, "int32_t", 2),
    Ov("uint8_t", "b", 16, 16, "int32_t", 2),
    Ov("int32_t", "accumulator", 16, 16, "int32_t", 8) }

\* the partial specialisation exists only for row_major / col_major; any
\* other key leaves joint_matrix<...> the undefined primary template
\* mutant: enable_if without the layout condition
ResolvesAnyLayout(t, u, r, c, l) ==
  /\ l \in Layouts
  /\ \E d \in Decl : d.t = t /\ d.use = u /\ d.r = r /\ d.c = c

Resolves(t, u, r, c, l) ==
  /\ l \in RowCol
  /\ \E d \in Decl : d.t = t /\ d.use = u /\ d.r = r /\ d.c = c

FragOf(t, u, r, c) ==
  CHOOSE d \in Decl : d.t = t /\ d.use = u /\ d.r = r /\ d.c = c

\* ------------------------------------------------ intrinsic fragments
\* Number of 32-bit (or 64-bit for f64) registers the NVVM wmma intrinsic
\* of element kind ty, shape <<m,n,k>> and operand role reads or writes.
\* These are the int32_t storage sizes the source declares for each kind
\* (uint16_t rows for bf16, the commented-out int32_t rows for f16).
S16 == <<16, 16, 16>>
S832 == <<8, 32, 16>>
S328 == <<32, 8, 16>>
S884 == <<8, 8, 4>>

IntrWords(ty, sh, role) ==
  CASE ty = "bf16" /\ sh = S16 -> 4
    [] ty = "bf16" /\ sh = S832 /\ role = "a" -> 2
    [] ty = "bf16" /\ sh = S832 /\ role = "b" -> 8
    [] ty = "bf16" /\ sh = S328 /\ role = "a" -> 8
    [] ty = "bf16" /\ sh = S328 /\ role = "b" -> 2
    [] ty = "f16" /\ role \in {"a", "b"} -> 8
    [] ty = "f16" /\ role = "c" -> 4
    [] ty \in {"s8", "u8"} /\ sh = S16 -> 2
    [] ty \in {"s8", "u8"} /\ sh = S832 /\ role = "a" -> 1
    [] ty \in {"s8", "u8"} /\ sh = S832 /\ role = "b" -> 4
    [] ty \in {"s8", "u8"} /\ sh = S328 /\ role = "a" -> 4
    [] ty \in {"s8", "u8"} /\ sh = S328 /\ role = "b" -> 1
    [] ty \in {"s32", "f32"} -> 8
    [] ty = "f64" /\ role \in {"a", "b"} -> 1
    [] ty = "f64" /\ role = "c" -> 2
    [] OTHER -> -1

Key(t, u, r, c) == [t |-> t, use |-> u, r |-> r, c |-> c]

\* one operand of an intrinsic call: the tile it comes from, how many words
\* the intrinsic accesses, and whether the fragment storage is passed as is
\* ("native") or through reinterpret_cast<int32_t *> ("int32")
Opnd(key, ty, sh, role, view) ==
  [tile |-> key, words |-> IntrWords(ty, sh, role), view |-> view]

\* an intrinsic call __<fam>_<shape>_<kind>_<role>_<ty>(..., ldm, lay[, satf])
\* (ldm: the stride operand, -1 for the mma intrinsics that take none)
Instr(fam, kind, ty, sh, role, ldm, lay, satf, ops) ==
  [fam |-> fam, kind |-> kind, ty |-> ty, shape |-> sh, role |-> role,
   ldm |-> ldm, lay |-> lay, satf |-> satf, ops |-> ops]

\* ---------------------------------------- joint_matrix_load_impl::load
\* mutant: stride converted to int32 words for reinterpreted fragments
LoadSelHalvedStride(t, u, r, c, l, s) ==
  LET key == Key(t, u, r, c)
      L == LayoutId(l)
      Ld(fam, ty, sh, role, view) ==
        << Instr(fam, "ld", ty, sh, role,
                 IF view = "int32" THEN s \div 2 ELSE s, L, -1,
                 << Opnd(key, ty, sh, role, view) >>) >>
  IN
  IF t \in {"uint16_t", "bfloat16"} THEN
    IF r = 16 /\ c = 16 THEN
      IF u = "a" THEN Ld("mma_bf16", "bf16", S16, "a", "int32")
      ELSE IF u = "b" THEN Ld("mma_bf16", "bf16", S16, "b", "int32")
      ELSE << >>
    ELSE IF r = 8 /\ c = 16 THEN Ld("mma_bf16", "bf16", S832, "a", "int32")
    ELSE IF r = 16 /\ c = 32 THEN Ld("mma_bf16", "bf16", S832, "b", "int32")
    ELSE IF r = 32 /\ c = 16 THEN Ld("mma_bf16", "bf16", S328, "a", "int32")
    ELSE IF r = 16 /\ c = 8 THEN Ld("mma_bf16", "bf16", S328, "b", "int32")
    ELSE << >>
  ELSE IF t = "uint8_t" THEN
    IF r = 16 /\ c = 16 THEN
      IF u = "a" THEN Ld("imma", "u8", S16, "a", "native")
      ELSE IF u = "b" THEN Ld("imma", "u8", S16, "b", "native")
      ELSE << >>
    ELSE IF r = 8 /\ c = 16 THEN Ld("imma", "u8", S832, "a", "native")
    ELSE IF r = 16 /\ c = 32 THEN Ld("imma", "u8", S832, "b", "native")
    ELSE IF r = 32 /\ c = 16 THEN Ld("imma", "u8", S328, "a", "native")
    ELSE IF r = 16 /\ c = 8 THEN Ld("imma", "u8", S328, "b", "native")
    ELSE << >>
  ELSE IF t = "int8_t" THEN
    IF r = 16 /\ c = 16 THEN
      IF u = "a" THEN Ld("imma", "s8", S16, "a", "native")
      ELSE IF u = "b" THEN Ld("imma", "s8", S16, "b", "native")
      ELSE << >>
    ELSE IF r = 8 /\ c = 16 THEN Ld("imma", "s8", S832, "a", "native")
    ELSE IF r = 16 /\ c = 32 THEN Ld("imma", "s8", S832, "b", "native")
    ELSE IF r = 32 /\ c = 16 THEN Ld("imma", "s8", S328, "a", "native")
    ELSE IF r = 16 /\ c = 8 THEN Ld("imma", "s8", S328, "b", "native")
    ELSE << >>
  ELSE IF t = "half" THEN
    IF r = 16 /\ c = 16 THEN
      IF u = "a" THEN Ld("hmma", "f16", S16, "a", "int32")
      ELSE IF u = "b" THEN Ld("hmma", "f16", S16, "b", "int32")
      ELSE IF u = "accumulator" THEN Ld("hmma", "f16", S16, "c", "int32")
      ELSE << >>
    ELSE IF r = 8 /\ c = 16 THEN Ld("hmma", "f16", S832, "a", "int32")
    ELSE IF r = 16 /\ c = 32 THEN Ld("hmma", "f16", S832, "b", "int32")
    ELSE IF r = 32 /\ c = 16 THEN Ld("hmma", "f16", S328, "a", "int32")
    ELSE IF r = 16 /\ c = 8 THEN Ld("hmma", "f16", S328, "b", "int32")
    ELSE IF r = 32 /\ c = 8 THEN Ld("hmma", "f16", S328, "c", "int32")
    ELSE IF r = 8 /\ c = 32 THEN Ld("hmma", "f16", S832, "c", "int32")
    ELSE << >>
  ELSE IF t = "int32_t" THEN
    IF r = 16 /\ c = 16 THEN Ld("imma", "s32", S16, "c", "native")
    ELSE IF r = 8 /\ c = 32 THEN Ld("imma", "s32", S832, "c", "native")
    ELSE IF r = 32 /\ c = 8 THEN Ld("imma", "s32", S328, "c", "native")
    ELSE << >>
  ELSE IF t = "float" THEN
    IF r = 16 /\ c = 16 THEN Ld("hmma", "f32", S16, "c", "native")
    ELSE IF r = 8 /\ c = 32 THEN Ld("hmma", "f32", S832, "c", "native")
    ELSE IF r = 32 /\ c = 8 THEN Ld("hmma", "f32", S328, "c", "native")
    ELSE << >>
  ELSE IF t = "double" THEN
    IF u = "a" THEN Ld("dmma", "f64", S884, "a", "native")
    ELSE IF u = "b" THEN Ld("dmma", "f64", S884, "b", "native")
    ELSE IF u = "accumulator" THEN Ld("dmma", "f64", S884, "c", "native")
    ELSE << >>
  ELSE << >>

LoadSel(t, u, r, c, l, s) ==
  LET key == Key(t, u, r, c)
      L == LayoutId(l)
      Ld(fam, ty, sh, role, view) ==
        << Instr(fam, "ld", ty, sh, role, s, L, -1,
                 << Opnd(key, ty, sh, role, view) >>) >>
  IN
  IF t \in {"uint16_t", "bfloat16"} THEN
    IF r = 16 /\ c = 16 THEN
      IF u = "a" THEN Ld("mma_bf16", "bf16", S16, "a", "int32")
      ELSE IF u = "b" THEN Ld("mma_bf16", "bf16", S16, "b", "int32")
      ELSE << >>
    ELSE IF r = 8 /\ c = 16 THEN Ld("mma_bf16", "bf16", S832, "a", "int32")
    ELSE IF r = 16 /\ c = 32 THEN Ld("mma_bf16", "bf16", S832, "b", "int32")
    ELSE IF r = 32 /\ c = 16 THEN Ld("mma_bf16", "bf16", S328, "a", "int32")
    ELSE IF r = 16 /\ c = 8 THEN Ld("mma_bf16", "bf16", S328, "b", "int32")
    ELSE << >>
  ELSE IF t = "uint8_t" THEN
    IF r = 16 /\ c = 16 THEN
      IF u = "a" THEN Ld("imma", "u8", S16, "a", "native")
      ELSE IF u = "b" THEN Ld("imma", "u8", S16, "b", "native")
      ELSE << >>
    ELSE IF r = 8 /\ c = 16 THEN Ld("imma", "u8", S832, "a", "native")
    ELSE IF r = 16 /\ c = 32 THEN Ld("imma", "u8", S832, "b", "native")
    ELSE IF r = 32 /\ c = 16 THEN Ld("imma", "u8", S328, "a", "native")
    ELSE IF r = 16 /\ c = 8 THEN Ld("imma", "u8", S328, "b", "native")
    ELSE << >>
  ELSE IF t = "int8_t" THEN
    IF r = 16 /\ c = 16 THEN
      IF u = "a" THEN Ld("imma", "s8", S16, "a", "native")
      ELSE IF u = "b" THEN Ld("imma", "s8", S16, "b", "native")
      ELSE << >>
    ELSE IF r = 8 /\ c = 16 THEN Ld("imma", "s8", S832, "a", "native")
    ELSE IF r = 16 /\ c = 32 THEN Ld("imma", "s8", S832, "b", "native")
    ELSE IF r = 32 /\ c = 16 THEN Ld("imma", "s8", S328, "a", "native")
    ELSE IF r = 16 /\ c = 8 THEN Ld("imma", "s8", S328, "b", "native")
    ELSE << >>
  ELSE IF t = "half" THEN
    IF r = 16 /\ c = 16 THEN
      IF u = "a" THEN Ld("hmma", "f16", S16, "a", "int32")
      ELSE IF u = "b" THEN Ld("hmma", "f16", S16, "b", "int32")
      ELSE IF u = "accumulator" THEN Ld("hmma", "f16", S16, "c", "int32")
      ELSE << >>
    ELSE IF r = 8 /\ c = 16 THEN Ld("hmma", "f16", S832, "a", "int32")
    ELSE IF r = 16 /\ c = 32 THEN Ld("hmma", "f16", S832, "b", "int32")
    ELSE IF r = 32 /\ c = 16 THEN Ld("hmma", "f16", S328, "a", "int32")
    ELSE IF r = 16 /\ c = 8 THEN Ld("hmma", "f16", S328, "b", "int32")
    ELSE IF r = 32 /\ c = 8 THEN Ld("hmma", "f16", S328, "c", "int32")
    ELSE IF r = 8 /\ c = 32 THEN Ld("hmma", "f16", S832, "c", "int32")
    ELSE << >>
  ELSE IF t = "int32_t" THEN
    IF r = 16 /\ c = 16 THEN Ld("imma", "s32", S16, "c", "native")
    ELSE IF r = 8 /\ c = 32 THEN Ld("imma", "s32", S832, "c", "native")
    ELSE IF r = 32 /\ c = 8 THEN Ld("imma", "s32", S328, "c", "native")
    ELSE << >>
  ELSE IF t = "float" THEN
    IF r = 16 /\ c = 16 THEN Ld("hmma", "f32", S16, "c", "native")
    ELSE IF r = 8 /\ c = 32 THEN Ld("hmma", "f32", S832, "c", "native")
    ELSE IF r = 32 /\ c = 8 THEN Ld("hmma", "f32", S328, "c", "native")
    ELSE << >>
  ELSE IF t = "double" THEN
    IF u = "a" THEN Ld("dmma", "f64", S884, "a", "native")
    ELSE IF u = "b" THEN Ld("dmma", "f64", S884, "b", "native")
    ELSE IF u = "accumulator" THEN Ld("dmma", "f64", S884, "c", "native")
    ELSE << >>
  ELSE << >>

\* -------------------------------------- joint_matrix_store_impl::store
\* mutant: half 8x32 accumulator stored with the m32n8k16 intrinsic
StoreSelShapeSlip(t, r, c, l, s) ==
  LET key == Key(t, "accumulator", r, c)
      L == LayoutId(l)
      St(fam, ty, sh, view) ==
        << Instr(fam, "st", ty, sh, "c", s, L, -1,
                 << Opnd(key, ty, sh, "c", view) >>) >>
  IN
  IF r = 16 /\ c = 16 THEN
    IF t = "float" THEN St("hmma", "f32", S16, "native")
    ELSE IF t = "int32_t" THEN St("imma", "s32", S16, "native")
    ELSE IF t = "half" THEN St("hmma", "f16", S16, "int32")
    ELSE << >>
  ELSE IF r = 8 /\ c = 32 THEN
    IF t = "float" THEN St("hmma", "f32", S832, "native")
    ELSE IF t = "int32_t" THEN St("imma", "s32", S832, "native")
    ELSE IF t = "half" THEN St("hmma", "f16", S328, "int32")
    ELSE << >>
  ELSE IF r = 32 /\ c = 8 THEN
    IF t = "float" THEN St("hmma", "f32", S328, "native")
    ELSE IF t = "int32_t" THEN St("imma", "s32", S328, "native")
    ELSE IF t = "half" THEN St("hmma", "f16", S328, "int32")
    ELSE << >>
  ELSE IF t = "double" THEN St("dmma", "f64", S884, "native")
  ELSE << >>

\* mutant: layout operand always get_layout_id<row_major>()
StoreSelRowMajorOnly(t, r, c, l, s) ==
  LET key == Key(t, "accumulator", r, c)
      L == LayoutId("row_major")
      St(fam, ty, sh, view) ==
        << Instr(fam, "st", ty, sh, "c", s, L, -1,
                 << Opnd(key, ty, sh, "c", view) >>) >>
  IN
  IF r = 16 /\ c = 16 THEN
    IF t = "float" THEN St("hmma", "f32", S16, "native")
    ELSE IF t = "int32_t" THEN St("imma", "s32", S16, "native")
    ELSE IF t = "half" THEN St("hmma", "f16", S16, "int32")
    ELSE << >>
  ELSE IF r = 8 /\ c = 32 THEN
    IF t = "float" THEN St("hmma", "f32", S832, "native")
    ELSE IF t = "int32_t" THEN St("imma", "s32", S832, "native")
    ELSE IF t = "half" THEN St("hmma", "f16", S832, "int32")
    ELSE << >>
  ELSE IF r = 32 /\ c = 8 THEN
    IF t = "float" THEN St("hmma", "f32", S328, "native")
    ELSE IF t = "int32_t" THEN St("imma", "s32", S328, "native")
    ELSE IF t = "half" THEN St("hmma", "f16", S328, "int32")
    ELSE << >>
  ELSE IF t = "double" THEN St("dmma", "f64", S884, "native")
  ELSE << >>

StoreSel(t, r, c, l, s) ==
  LET key == Key(t, "accumulator", r, c)
      L == LayoutId(l)
      St(fam, ty, sh, view) ==
        << Instr(fam, "st", ty, sh, "c", s, L, -1,
                 << Opnd(key, ty, sh, "c", view) >>) >>
  IN
  IF r = 16 /\ c = 16 THEN
    IF t = "float" THEN St("hmma", "f32", S16, "native")
    ELSE IF t = "int32_t" THEN St("imma", "s32", S16, "native")
    ELSE IF t = "half" THEN St("hmma", "f16", S16, "int32")
    ELSE << >>
  ELSE IF r = 8 /\ c = 32 THEN
    IF t = "float" THEN St("hmma", "f32", S832, "native")
    ELSE IF t = "int32_t" THEN St("imma", "s32", S832, "native")
    ELSE IF t = "half" THEN St("hmma", "f16", S832, "int32")
    ELSE << >>
  ELSE IF r = 32 /\ c = 8 THEN
    IF t = "float" THEN St("hmma", "f32", S328, "native")
    ELSE IF t = "int32_t" THEN St("imma", "s32", S328, "native")
    ELSE IF t = "half" THEN St("hmma", "f16", S328, "int32")
    ELSE << >>
  ELSE IF t = "double" THEN St("dmma", "f64", S884, "native")
  ELSE << >>

\* ------------------------------------------ joint_matrix_mad_impl::mad
\* seq: the intrinsic issued (empty when no branch matches); cd: the storage
\* type the intrinsic's C and D pointer parameters require when C.data and
\* D.data are passed without reinterpret_cast ("any" when they are cast)
\* mutant: any non-float T2 takes the f16f16 branch
MadSelElseHalf(t1, t2, m, k, n, la, lb, lc) ==
  LET kA == Key(t1, "a", m, k)
      kB == Key(t1, "b", k, n)
      kC == Key(t2, "accumulator", m, n)
      Mma(fam, ty, sh, tyAB, viewAB, tyCD, viewCD, cd) ==
        [seq |-> << Instr(fam, "mma", ty, sh, "d", -1, LayoutPairId(la, lb), 0,
                          << Opnd(kC, tyCD, sh, "c", viewCD),
                             Opnd(kA, tyAB, sh, "a", viewAB),
                             Opnd(kB, tyAB, sh, "b", viewAB),
                             Opnd(kC, tyCD, sh, "c", viewCD) >>) >>,
         cd |-> cd]
      None == [seq |-> << >>, cd |-> "any"]
      ByT1(sh) ==
        IF t1 = "int8_t" THEN
          Mma("imma", "s8", sh, "s8", "native", "s32", "native", "int32_t")
        ELSE IF t1 = "uint8_t" THEN
          Mma("imma", "u8", sh, "u8", "native", "s32", "native", "int32_t")
        ELSE IF t1 = "half" THEN
          IF t2 = "float" THEN
            Mma("hmma", "f32f32", sh, "f16", "int32", "f32", "native", "float")
          ELSE
            Mma("hmma", "f16f16", sh, "f16", "int32", "f16", "int32", "any")
        ELSE IF t1 \in {"uint16_t", "bfloat16"} THEN
          Mma("mma_bf16", "f32", sh, "bf16", "int32", "f32", "native", "float")
        ELSE None
  IN
  IF m = 16 /\ n = 16 /\ k = 16 THEN ByT1(S16)
  ELSE IF m = 8 /\ n = 32 /\ k = 16 THEN ByT1(S832)
  ELSE IF m = 32 /\ n = 8 /\ k = 16 THEN ByT1(S328)
  ELSE IF t1 = "double" THEN
    Mma("dmma", "f64", S884, "f64", "native", "f64", "native", "double")
  ELSE None

\* mutant: m8n32k16 tiles issued with the m32n8k16 intrinsic
MadSelShapeSlip(t1, t2, m, k, n, la, lb, lc) ==
  LET kA == Key(t1, "a", m, k)
      kB == Key(t1, "b", k, n)
      kC == Key(t2, "accumulator", m, n)
      Mma(fam, ty, sh, tyAB, viewAB, tyCD, viewCD, cd) ==
        [seq |-> << Instr(fam, "mma", ty, sh, "d", -1, LayoutPairId(la, lb), 0,
                          << Opnd(kC, tyCD, sh, "c", viewCD),
                             Opnd(kA, tyAB, sh, "a", viewAB),
                             Opnd(kB, tyAB, sh, "b", viewAB),
                             Opnd(kC, tyCD, sh, "c", viewCD) >>) >>,
         cd |-> cd]
      None == [seq |-> << >>, cd |-> "any"]
      ByT1(sh) ==
        IF t1 = "int8_t" THEN
          Mma("imma", "s8", sh, "s8", "native", "s32", "native", "int32_t")
        ELSE IF t1 = "uint8_t" THEN
          Mma("imma", "u8", sh, "u8", "native", "s32", "native", "int32_t")
        ELSE IF t1 = "half" THEN
          IF t2 = "float" THEN
            Mma("hmma", "f32f32", sh, "f16", "int32", "f32", "native", "float")
          ELSE IF t2 = "half" THEN
            Mma("hmma", "f16f16", sh, "f16", "int32", "f16", "int32", "any")
          ELSE None
        ELSE IF t1 \in {"uint16_t", "bfloat16"} THEN
          Mma("mma_bf16", "f32", sh, "bf16", "int32", "f32", "native", "float")
        ELSE None
  IN
  IF m = 16 /\ n = 16 /\ k = 16 THEN ByT1(S16)
  ELSE IF m = 8 /\ n = 32 /\ k = 16 THEN ByT1(S328)
  ELSE IF m = 32 /\ n = 8 /\ k = 16 THEN ByT1(S328)
  ELSE IF t1 = "double" THEN
    Mma("dmma", "f64", S884, "f64", "native", "f64", "native", "double")
  ELSE None

\* mutant: satf taken from the accumulator layout
MadSelSatfLayoutC(t1, t2, m, k, n, la, lb, lc) ==
  LET kA == Key(t1, "a", m, k)
      kB == Key(t1, "b", k, n)
      kC == Key(t2, "accumulator", m, n)
      Mma(fam, ty, sh, tyAB, viewAB, tyCD, viewCD, cd) ==
        [seq |-> << Instr(fam, "mma", ty, sh, "d", -1, LayoutPairId(la, lb),
                          IF lc = "col_major" THEN 1 ELSE 0,
                          << Opnd(kC, tyCD, sh, "c", viewCD),
                             Opnd(kA, tyAB, sh, "a", viewAB),
                             Opnd(kB, tyAB, sh, "b", viewAB),
                             Opnd(kC, tyCD, sh, "c", viewCD) >>) >>,
         cd |-> cd]
      None == [seq |-> << >>, cd |-> "any"]
      ByT1(sh) ==
        IF t1 = "int8_t" THEN
          Mma("imma", "s8", sh, "s8", "native", "s32", "native", "int32_t")
        ELSE IF t1 = "uint8_t" THEN
          Mma("imma", "u8", sh, "u8", "native", "s32", "native", "int32_t")
        ELSE IF t1 = "half" THEN
          IF t2 = "float" THEN
            Mma("hmma", "f32f32", sh, "f16", "int32", "f32", "native", "float")
          ELSE IF t2 = "half" THEN
            Mma("hmma", "f16f16", sh, "f16", "int32", "f16", "int32", "any")
          ELSE None
        ELSE IF t1 \in {"uint16_t", "bfloat16"} THEN
          Mma("mma_bf16", "f32", sh, "bf16", "int32", "f32", "native", "float")
        ELSE None
  IN
  IF m = 16 /\ n = 16 /\ k = 16 THEN ByT1(S16)
  ELSE IF m = 8 /\ n = 32 /\ k = 16 THEN ByT1(S832)
  ELSE IF m = 32 /\ n = 8 /\ k = 16 THEN ByT1(S328)
  ELSE IF t1 = "double" THEN
    Mma("dmma", "f64", S884, "f64", "native", "f64", "native", "double")
  ELSE None

MadSel(t1, t2, m, k, n, la, lb, lc) ==
  LET kA == Key(t1, "a", m, k)
      kB == Key(t1, "b", k, n)
      kC == Key(t2, "accumulator", m, n)
      Mma(fam, ty, sh, tyAB, viewAB, tyCD, viewCD, cd) ==
        [seq |-> << Instr(fam, "mma", ty, sh, "d", -1, LayoutPairId(la, lb), 0,
                          << Opnd(kC, tyCD, sh, "c", viewCD),
                             Opnd(kA, tyAB, sh, "a", viewAB),
                             Opnd(kB, tyAB, sh, "b", viewAB),
                             Opnd(kC, tyCD, sh, "c", viewCD) >>) >>,
         cd |-> cd]
      None == [seq |-> << >>, cd |-> "any"]
      ByT1(sh) ==
        IF t1 = "int8_t" THEN
          Mma("imma", "s8", sh, "s8", "native", "s32", "native", "int32_t")
        ELSE IF t1 = "uint8_t" THEN
          Mma("imma", "u8", sh, "u8", "native", "s32", "native", "int32_t")
        ELSE IF t1 = "half" THEN
          IF t2 = "float" THEN
            Mma("hmma", "f32f32", sh, "f16", "int32", "f32", "native", "float")
          ELSE IF t2 = "half" THEN
            Mma("hmma", "f16f16", sh, "f16", "int32", "f16", "int32", "any")
          ELSE None
        ELSE IF t1 \in {"uint16_t", "bfloat16"} THEN
          Mma("mma_bf16", "f32", sh, "bf16", "int32", "f32", "native", "float")
        ELSE None
  IN
  IF m = 16 /\ n = 16 /\ k = 16 THEN ByT1(S16)
  ELSE IF m = 8 /\ n = 32 /\ k = 16 THEN ByT1(S832)
  ELSE IF m = 32 /\ n = 8 /\ k = 16 THEN ByT1(S328)
  ELSE IF t1 = "double" THEN
    Mma("dmma", "f64", S884, "f64", "native", "f64", "native", "double")
  ELSE None

\* D = A * B + C computed by the hardware mma instruction
MmaValue(a, b, c) == a * b + c

\* ------------------------------------------------------------- state
NoCall ==
  [t |-> "none", use |-> "none", r |-> 0, c |-> 0, layout |-> "none",
   t1 |-> "none", t2 |-> "none", tb |-> "none", m |-> 0, k |-> 0, n |-> 0,
   la |-> "none", lb |-> "none", lc |-> "none", ndebug |-> FALSE,
   a |-> 0, b |-> 0, cv |-> 0, d |-> Indet, v |-> 0, stride |-> 0]

NoDesc == [t |-> "none", use |-> "none", r |-> 0, c |-> 0, layout |-> "none"]

\* detail records of the non-matrix operations before any call
NoElem == [base |-> "none", width |-> 0]
NoCopy == [src |-> NoElem, t |-> NoElem, prim |-> "none", dir |-> "none",
           masked |-> FALSE, mask |-> 0, argN |-> 0, argStride |-> 0,
           n |-> 0, stride |-> 0, hops |-> 0]
NoP2P == [fn |-> "none", prop |-> "none", hip |-> "none", prev |-> "none",
          active |-> "none", stage |-> "none", calls |-> 0,
          attr |-> "none", result |-> "none", written |-> FALSE]
NoGrp == [kind |-> "none", n |-> 0, maxr |-> 0, withInit |-> FALSE,
          gb |-> 0, sgOut |-> << >>,
          mask |-> {}, run |-> {}, first |-> 0, last |-> 0, opk |-> "none",
          init |-> 0, vals |-> << >>, offs |-> [l \in {} |-> 0],
          stride |-> 0, visits |-> [l \in {} |-> {}],
          partial |-> [l \in {} |-> 0], jrOut |-> [l \in {} |-> 0],
          size |-> 0, ldr |-> << >>, lid |-> 0, offset |-> 0,
          noReturn |-> FALSE]
NoTf == [a |-> [hi |-> 0, lo |-> 0], host |-> [hi |-> 0, lo |-> 0],
         device |-> [hi |-> 0, lo |-> 0]]

Init ==
  /\ pc = "idle"
  /\ api = "none"
  /\ op = "none"
  /\ ctx = "none"
  /\ call = NoCall
  /\ outcome = "none"
  /\ issued = << >>
  /\ vA = 0
  /\ vB = 0
  /\ vC = 0
  /\ vD = Indet
  /\ cDesc = NoDesc
  /\ dDesc = NoDesc
  /\ mem = Indet
  /\ copy = NoCopy
  /\ p2p = NoP2P
  /\ tf = NoTf
  /\ grp = NoGrp

\* experimental::matrix::joint_matrix_load (tensorcore API)
TcLoad ==
  /\ pc = "idle"
  /\ \E t \in Types, u \in Uses, r \in Dims, c \in Dims, l \in Layouts,
        x \in Ctxs, sd \in Strides :
       LET sel == LoadSel(t, u, r, c, l, sd)
           out == IF ~Resolves(t, u, r, c, l) THEN "noresolve"
                  ELSE IF x = "host" THEN "invalid_device"
                  ELSE IF x = "spir" THEN "compile_error"
                  ELSE IF Len(sel) = 0 THEN "silent"
                  ELSE "ok"
       IN /\ ctx' = x
          /\ call' = [NoCall EXCEPT !.t = t, !.use = u, !.r = r, !.c = c,
                                    !.layout = l, !.stride = sd]
          /\ outcome' = out
          /\ issued' = IF out = "ok" THEN sel ELSE << >>
  /\ pc' = "done"
  /\ api' = "tc"
  /\ op' = "load"
  /\ UNCHANGED <<matVars, extVars>>

\* experimental::matrix::joint_matrix_store (tensorcore API)
TcStore ==
  /\ pc = "idle"
  /\ \E t \in Types, r \in Dims, c \in Dims, l \in Layouts, x \in Ctxs,
        sd \in Strides :
       LET sel == StoreSel(t, r, c, l, sd)
           out == IF ~Resolves(t, "accumulator", r, c, l) THEN "noresolve"
                  ELSE IF x = "host" THEN "invalid_device"
                  ELSE IF x = "spir" THEN "compile_error"
                  ELSE IF Len(sel) = 0 THEN "silent"
                  ELSE "ok"
       IN /\ ctx' = x
          /\ call' = [NoCall EXCEPT !.t = t, !.use = "accumulator", !.r = r,
                                    !.c = c, !.layout = l, !.stride = sd]
          /\ outcome' = out
          /\ issued' = IF out = "ok" THEN sel ELSE << >>
  /\ pc' = "done"
  /\ api' = "tc"
  /\ op' = "store"
  /\ UNCHANGED <<matVars, extVars>>

\* experimental::matrix::joint_matrix_mad (tensorcore API): A, B, C by value,
\* D a new local of C's type returned by value
TcMad ==
  /\ pc = "idle"
  /\ \E t1 \in Types, t2 \in Types, m \in MadMN, k \in MadK, n \in MadMN,
        la \in RowCol, lb \in RowCol, lc \in RowCol, x \in Ctxs,
        a \in Vals, b \in Vals, cv \in Vals :
       LET resolved == /\ Resolves(t1, "a", m, k, la)
                       /\ Resolves(t1, "b", k, n, lb)
                       /\ Resolves(t2, "accumulator", m, n, lc)
           sel == MadSel(t1, t2, m, k, n, la, lb, lc)
           out == IF ~resolved THEN "noresolve"
                  ELSE IF x = "host" THEN "invalid_device"
                  ELSE IF x = "spir" THEN "compile_error"
                  ELSE IF Len(sel.seq) = 0 THEN "silent"
                  ELSE IF sel.cd # "any"
                          /\ sel.cd # FragOf(t2, "accumulator", m, n).ft
                       THEN "compile_error"
                  ELSE "ok"
       IN /\ ctx' = x
          /\ call' = [NoCall EXCEPT !.t1 = t1, !.t2 = t2, !.tb = t1, !.m = m,
                                    !.k = k, !.n = n, !.la = la, !.lb = lb,
                                    !.lc = lc, !.a = a, !.b = b, !.cv = cv]
          /\ outcome' = out
          /\ issued' = IF out = "ok" THEN sel.seq ELSE << >>
          /\ vA' = a
          /\ vB' = b
          /\ vC' = cv
          /\ vD' = IF out = "ok" THEN MmaValue(a, b, cv) ELSE Indet
          /\ cDesc' = [t |-> t2, use |-> "accumulator", r |-> m, c |-> n,
                       layout |-> lc]
          /\ dDesc' = [t |-> t2, use |-> "accumulator", r |-> m, c |-> n,
                       layout |-> lc]
  /\ pc' = "done"
  /\ api' = "tc"
  /\ op' = "mad"
  /\ UNCHANGED extVars

\* ------------------------------------------------------- unified API
UTypesAB == {"half", "bfloat16", "int8_t"}
UTypesC == {"float", "half", "int32_t"}
\* (M, K, N)
UShapes == {<<16, 16, 16>>, <<8, 16, 32>>, <<32, 16, 8>>, <<8, 4, 8>>}

\* a call of a detail:: helper of the CUDA backend
Helper(name) == << Instr(name, "call", "none", <<0, 0, 0>>, "none", -1, -1, -1,
                         << >>) >>

\* joint_matrix_fill(sg, res, v): res.wi_marray = v on NVPTX
UFill ==
  /\ pc = "idle"
  /\ \E x \in Ctxs, v \in Vals, cv \in Vals :
       /\ ctx' = x
       /\ call' = [NoCall EXCEPT !.v = v, !.cv = cv]
       /\ outcome' = CASE x = "host" -> "invalid_device"
                       [] x = "spir" -> "noop"
                       [] x = "nvptx" -> "ok"
       /\ vC' = IF x = "nvptx" THEN v ELSE cv
  /\ issued' = << >>
  /\ pc' = "done"
  /\ api' = "unified"
  /\ op' = "fill"
  /\ UNCHANGED <<vA, vB, vD, cDesc, dDesc, extVars>>

\* joint_matrix_load, accumulator overload (LayoutAcc) and multiplicand
\* overload
ULoad ==
  /\ pc = "idle"
  /\ \E x \in Ctxs, which \in {"load_accumulator_cuda", "load_multiplicand_cuda"} :
       /\ ctx' = x
       /\ call' = [NoCall EXCEPT !.use = IF which = "load_accumulator_cuda"
                                         THEN "accumulator" ELSE "a"]
       /\ outcome' = CASE x = "host" -> "invalid_device"
                       [] x = "spir" -> "noop"
                       [] x = "nvptx" -> "ok"
       /\ issued' = IF x = "nvptx" THEN Helper(which) ELSE << >>
  /\ pc' = "done"
  /\ api' = "unified"
  /\ op' = "load"
  /\ UNCHANGED <<matVars, extVars>>

\* joint_matrix_store (accumulator, LayoutAcc)
UStore ==
  /\ pc = "idle"
  /\ \E x \in Ctxs :
       /\ ctx' = x
       /\ call' = [NoCall EXCEPT !.use = "accumulator"]
       /\ outcome' = CASE x = "host" -> "invalid_device"
                       [] x = "spir" -> "noop"
                       [] x = "nvptx" -> "ok"
       /\ issued' = IF x = "nvptx" THEN Helper("joint_matrix_store_cuda")
                    ELSE << >>
  /\ pc' = "done"
  /\ api' = "unified"
  /\ op' = "store"
  /\ UNCHANGED <<matVars, extVars>>

\* joint_matrix_mad (unified API): A, B, C by reference.  With Ta # Tb the
\* device path is assert(false && ...): a device assertion failure when
\* assertions are enabled; with NDEBUG the function flows off its end
\* without a return (undefined behaviour).  On a non-NVPTX device the body
\* is empty and also flows off its end.
\* mutant: the result accumulated into C in place
UMadInPlace ==
  /\ pc = "idle"
  /\ \E ta \in UTypesAB, tb \in UTypesAB, tc \in UTypesC, s \in UShapes,
        la \in RowCol, lb \in RowCol, x \in Ctxs, nd \in BOOLEAN,
        a \in Vals, b \in Vals, cv \in Vals :
       LET out == CASE x = "host" -> "invalid_device"
                    [] x = "spir" -> "ub"
                    [] x = "nvptx" /\ ta = tb -> "ok"
                    [] x = "nvptx" /\ ta # tb /\ ~nd -> "assert_type_mismatch"
                    [] x = "nvptx" /\ ta # tb /\ nd -> "ub"
       IN /\ ctx' = x
          /\ call' = [NoCall EXCEPT !.t1 = ta, !.tb = tb, !.t2 = tc,
                                    !.m = s[1], !.k = s[2], !.n = s[3],
                                    !.la = la, !.lb = lb, !.lc = "dynamic",
                                    !.ndebug = nd, !.a = a, !.b = b, !.cv = cv]
          /\ outcome' = out
          /\ issued' = IF out = "ok" THEN Helper("joint_matrix_mad_cuda")
                       ELSE << >>
          /\ vA' = a
          /\ vB' = b
          /\ vC' = IF out = "ok" THEN MmaValue(a, b, cv) ELSE cv
          /\ vD' = IF out = "ok" THEN MmaValue(a, b, cv) ELSE Indet
          /\ cDesc' = [t |-> tc, use |-> "accumulator", r |-> s[1],
                       c |-> s[3], layout |-> "dynamic"]
          /\ dDesc' = [t |-> tc, use |-> "accumulator", r |-> s[1],
                       c |-> s[3], layout |-> "dynamic"]
  /\ pc' = "done"
  /\ api' = "unified"
  /\ op' = "mad"
  /\ UNCHANGED extVars

UMad ==
  /\ pc = "idle"
  /\ \E ta \in UTypesAB, tb \in UTypesAB, tc \in UTypesC, s \in UShapes,
        la \in RowCol, lb \in RowCol, x \in Ctxs, nd \in BOOLEAN,
        a \in Vals, b \in Vals, cv \in Vals :
       LET out == CASE x = "host" -> "invalid_device"
                    [] x = "spir" -> "ub"
                    [] x = "nvptx" /\ ta = tb -> "ok"
                    [] x = "nvptx" /\ ta # tb /\ ~nd -> "assert_type_mismatch"
                    [] x = "nvptx" /\ ta # tb /\ nd -> "ub"
       IN /\ ctx' = x
          /\ call' = [NoCall EXCEPT !.t1 = ta, !.tb = tb, !.t2 = tc,
                                    !.m = s[1], !.k = s[2], !.n = s[3],
                                    !.la = la, !.lb = lb, !.lc = "dynamic",
                                    !.ndebug = nd, !.a = a, !.b = b, !.cv = cv]
          /\ outcome' = out
          /\ issued' = IF out = "ok" THEN Helper("joint_matrix_mad_cuda")
                       ELSE << >>
          /\ vA' = a
          /\ vB' = b
          /\ vC' = cv
          /\ vD' = IF out = "ok" THEN MmaValue(a, b, cv) ELSE Indet
          /\ cDesc' = [t |-> tc, use |-> "accumulator", r |-> s[1],
                       c |-> s[3], layout |-> "dynamic"]
          /\ dDesc' = [t |-> tc, use |-> "accumulator", r |-> s[1],
                       c |-> s[3], layout |-> "dynamic"]
  /\ pc' = "done"
  /\ api' = "unified"
  /\ op' = "mad"
  /\ UNCHANGED extVars

\* ------------------------------------------------ wmma load / store
\* The intrinsics themselves are hardware: a wmma load fills the fragment
\* from memory according to its parameters, and a wmma store with the same
\* element kind, shape, role, stride, layout and fragment words writes the
\* same bits back.  The fragment is modelled as the source bits tagged with
\* the parameters of the load that produced it.
WmmaParams(i) ==
  [ty |-> i.ty, shape |-> i.shape, role |-> i.role, ldm |-> i.ldm,
   lay |-> i.lay, words |-> i.ops[1].words, view |-> i.ops[1].view]

WmmaLoad(i, x) == [bits |-> x, by |-> WmmaParams(i)]

WmmaStore(i, frag) == IF frag.by = WmmaParams(i) THEN frag.bits ELSE Indet

\* joint_matrix_load into an accumulator fragment followed by
\* joint_matrix_store of that fragment with the same layout and stride
TcLoadStore ==
  /\ pc = "idle"
  /\ \E t \in Types, r \in Dims, c \in Dims, l \in RowCol, sd \in Strides,
        x \in Vals :
       /\ Resolves(t, "accumulator", r, c, l)
       /\ LET ld == LoadSel(t, "accumulator", r, c, l, sd)
              st == StoreSel(t, r, c, l, sd)
          IN /\ call' = [NoCall EXCEPT !.t = t, !.use = "accumulator",
                                       !.r = r, !.c = c, !.layout = l,
                                       !.stride = sd, !.v = x]
             /\ outcome' = IF Len(ld) = 1 /\ Len(st) = 1 THEN "ok"
                           ELSE "silent"
             /\ issued' = ld \o st
             /\ mem' = IF Len(ld) = 1 /\ Len(st) = 1
                       THEN WmmaStore(st[1], WmmaLoad(ld[1], x))
                       ELSE Indet
  /\ ctx' = "nvptx"
  /\ pc' = "done"
  /\ api' = "tc"
  /\ op' = "load_store"
  /\ UNCHANGED <<matVars, grp, copy, p2p, tf>>

\* ------------------------------------------- group_algorithm.hpp as a TU
\* whether an enable_if_t argument's parentheses are balanced: the tokens
\* of the two masked reduce_over_group declarations, lines 800-804 and
\* 824-828, in source order
RECURSIVE ParenDepthOk(_, _)
ParenDepthOk(toks, d) ==
  IF toks = << >> THEN d = 0
  ELSE LET d2 == IF Head(toks) = "(" THEN d + 1 ELSE d - 1
       IN d2 >= 0 /\ ParenDepthOk(Tail(toks), d2)
ReduceOverGroupMaskedDecl == <<"(", "(", ")", ")", ")">>
ReduceOverGroupMaskedInitDecl == <<"(", "(", ")", ")", ")">>
MaskedReduceDeclsParse ==
  /\ ParenDepthOk(ReduceOverGroupMaskedDecl, 0)
  /\ ParenDepthOk(ReduceOverGroupMaskedInitDecl, 0)

\* every call of a function of group_algorithm.hpp: the result of the
\* function body, or compile_error when the header does not parse.  The
\* group actions record in copy / grp what the called function's body
\* computes for its arguments, and in outcome what the translation unit
\* including the header gives.
GroupOutcome(res) == IF MaskedReduceDeclsParse THEN res ELSE "compile_error"

\* ------------------------------------------------- async_group_copy
\* element type dataT: base type and vector width (0 for a scalar)
CopyBases == {"bool", "uint8_t", "int"}
CopyWidths == {0, 2, 4}
CopyElems == [base : CopyBases, width : CopyWidths]
CopyDirs == {"global_to_local", "local_to_global"}
CopyCounts == {1, 2}
\* explicit stride argument; 0 stands for the overload without a stride
CopyStrides == {0, 1, 2}
MaskBitsVals == {1, 3}

\* detail::is_bool<T>: scalar bool or vector of bool
IsBool(ty) == ty.base = "bool"


\* mutant: vector bool forwarded as a scalar uint8_t
BoolStorageTypeScalar(ty) == [base |-> "uint8_t", width |-> 0]

\* scalar bool -> uint8_t; vector bool -> change_base_type_t<T, uint8_t>
BoolStorageType(ty) ==
  IF ty.width = 0 THEN [base |-> "uint8_t", width |-> 0]
  ELSE [base |-> "uint8_t", width |-> ty.width]

\* __SYCL_OpGroupAsyncCopy* reached by the non-bool overloads
CopyPrim(dir, masked) ==
  CASE dir = "global_to_local" /\ ~masked -> "OpGroupAsyncCopyGlobalToLocal"
    [] dir = "local_to_global" /\ ~masked -> "OpGroupAsyncCopyLocalToGlobal"
    [] dir = "global_to_local" /\ masked ->
         "OpGroupAsyncCopyGlobalToLocalMasked"
    [] dir = "local_to_global" /\ masked ->
         "OpGroupAsyncCopyLocalToGlobalMasked"

\* overload resolution of async_group_copy(g, [mask,] src, dest, n, stride):
\* bool overloads reinterpret both pointers and call again with the same
\* count, stride and mask; the non-bool overloads issue the primitive
RECURSIVE CopyDispatch(_, _, _, _, _, _, _)
CopyDispatch(ty, dir, masked, mask, n, stride, hops) ==
  IF IsBool(ty)
  THEN CopyDispatch(BoolStorageType(ty), dir, masked, mask, n, stride,
                    hops + 1)
  ELSE [t |-> ty, prim |-> CopyPrim(dir, masked),
        mask |-> IF masked THEN mask ELSE 0, n |-> n, stride |-> stride,
        hops |-> hops]

\* async_group_copy: all overloads (stride-less ones pass stride 1)
AsyncCopy ==
  /\ pc = "idle"
  /\ \E ty \in CopyElems, dir \in CopyDirs, masked \in BOOLEAN,
        mk \in MaskBitsVals, n \in CopyCounts, sa \in CopyStrides :
       /\ (~masked => mk = 1)
       /\ LET res == CopyDispatch(ty, dir, masked, mk, n,
                                  IF sa = 0 THEN 1 ELSE sa, 0)
              args == [NoCopy EXCEPT !.src = ty, !.dir = dir,
                         !.masked = masked,
                         !.mask = IF masked THEN mk ELSE 0,
                         !.argN = n, !.argStride = sa]
          IN copy' = [args EXCEPT !.t = res.t, !.prim = res.prim,
                        !.n = res.n, !.stride = res.stride,
                        !.hops = res.hops]
  /\ pc' = "done"
  /\ api' = "group"
  /\ op' = "async_copy"
  /\ outcome' = GroupOutcome("ok")
  /\ ctx' = "spir"
  /\ UNCHANGED <<call, issued, matVars, grp, mem, p2p, tf>>

\* ------------------------------------------------- round_to_tf32
\* a 32-bit pattern as its top 19 bits and its low 13 bits
Hi19 == 524288
Lo13 == 8192
Bits32(hi, lo) == [hi |-> hi, lo |-> lo]
\* float bit patterns: zero, values around the 0x1000 boundary, ties, the
\* largest finite values that round up, infinities, NaNs, and patterns
\* whose addition wraps past 2^32
TfInputs == {Bits32(0, 0), Bits32(0, 4095), Bits32(0, 4096), Bits32(0, 4097),
             Bits32(1, 4095), Bits32(130048, 4095), Bits32(130048, 4096),
             Bits32(130049, 4096), Bits32(392193, 4096), Bits32(262144, 4095),
             Bits32(261119, 4096), Bits32(261120, 0), Bits32(261120, 1),
             Bits32(261632, 0), Bits32(262143, 8191), Bits32(523264, 0),
             Bits32(524287, 4096), Bits32(524287, 8191)}

\* uint32_t x + k for 0 <= k < 2^13, wrapping modulo 2^32
AddU32(x, k) ==
  Bits32((x.hi + (x.lo + k) \div Lo13) % Hi19, (x.lo + k) % Lo13)

\* mutant: masks with 0xFFFFF000u (12 bits) instead of 0xFFFFE000u
Tf32HostMask12(a) ==
  LET u == AddU32(a, 4096) IN Bits32(u.hi, u.lo - (u.lo % 4096))

\* host / non-NVPTX path: tmp_uint += 0x1000u; tmp_uint &= 0xFFFFE000u;
Tf32Host(a) == LET u == AddU32(a, 4096) IN Bits32(u.hi, 0)

\* IEEE-754 binary32 NaN: exponent all ones, non-zero mantissa
\* (magnitude above 0x7F800000 = 261120 * 2^13)
IsNaN32(a) ==
  LET mhi == a.hi % (Hi19 \div 2)
  IN mhi > 261120 \/ (mhi = 261120 /\ a.lo > 0)

\* __nvvm_f2tf32_rna (cvt.rna.tf32.f32): NaN gives the canonical NaN
\* 0x7FFFFFFF; otherwise the magnitude is rounded to 10 mantissa bits, ties
\* away from zero, the sign kept (a finite overflow becomes infinity)
Tf32Rna(a) ==
  IF IsNaN32(a) THEN Bits32(262143, 8191)
  ELSE LET sgn == a.hi - (a.hi % (Hi19 \div 2))
           mhi == a.hi % (Hi19 \div 2)
       IN Bits32(sgn + mhi + a.lo \div 4096, 0)

\* round_to_tf32(a): both compilation paths applied to the same bits
TfRound ==
  /\ pc = "idle"
  /\ \E a \in TfInputs :
       tf' = [a |-> a, host |-> Tf32Host(a), device |-> Tf32Rna(a)]
  /\ pc' = "done"
  /\ api' = "unified"
  /\ op' = "round_to_tf32"
  /\ outcome' = "ok"
  /\ ctx' = "host"
  /\ UNCHANGED <<call, issued, matVars, grp, mem, copy, p2p>>

\* ------------------------------------------- sub_group reduce (non-native)
\* get_max_local_range() of the sub-group, including one that is not a
\* power of two; the active lanes are 0 .. get_local_range() - 1
SgMaxRanges == {4, 6, 8}
\* value read by shuffle_xor from a lane outside the local range
SgGarbage == {-2, -3}

RECURSIVE BitXor(_, _)
BitXor(a, b) ==
  IF a = 0 /\ b = 0 THEN 0
  ELSE 2 * BitXor(a \div 2, b \div 2) + (((a % 2) + (b % 2)) % 2)

\* lane i's x: a one-element word, so that op = concatenation is the free
\* associative (non-commutative) operation
SgX(i) == <<i>>
SgInit == <<-1>>
SgOp(a, b) == a \o b

\* g.shuffle_xor(result, id<1>(mask)) seen by lane i
ShuffleXor(res, i, mask, n, gb) ==
  LET j == BitXor(i, mask) IN IF j < n THEN res[j] ELSE <<gb>>


\* for (int mask = 1; mask < g.get_max_local_range()[0]; mask *= 2) {
\*   T tmp = g.shuffle_xor(result, id<1>(mask));
\*   if ((g.get_local_id()[0] ^ mask) < g.get_local_range()[0])
\*     result = op(result, tmp); }
\* mutant: op applied as op(tmp, result)
RECURSIVE ButterflySwapped(_, _, _, _, _)
ButterflySwapped(res, mask, n, maxr, gb) ==
  IF mask >= maxr THEN res
  ELSE ButterflySwapped(
         [i \in DOMAIN res |->
            LET tmp == ShuffleXor(res, i, mask, n, gb)
            IN IF BitXor(i, mask) < n THEN SgOp(tmp, res[i]) ELSE res[i]],
         mask * 2, n, maxr, gb)

RECURSIVE Butterfly(_, _, _, _, _)
Butterfly(res, mask, n, maxr, gb) ==
  IF mask >= maxr THEN res
  ELSE Butterfly(
         [i \in DOMAIN res |->
            LET tmp == ShuffleXor(res, i, mask, n, gb)
            IN IF BitXor(i, mask) < n THEN SgOp(res[i], tmp) ELSE res[i]],
         mask * 2, n, maxr, gb)

\* ext::oneapi::reduce(sub_group, x, op) and reduce(sub_group, x, init, op)
\* for non-native operations: every lane returns g.shuffle(..., 0)
SgReduce ==
  /\ pc = "idle"
  /\ \E maxr \in SgMaxRanges, wi \in BOOLEAN, gb \in SgGarbage :
     \E n \in 1..maxr :
       LET res == Butterfly([i \in 0..(n - 1) |-> SgX(i)], 1, n, maxr, gb)
           mine == [i \in 0..(n - 1) |->
                      IF wi THEN SgOp(SgInit, res[i]) ELSE res[i]]
           args == [NoGrp EXCEPT !.kind = "sg_reduce", !.n = n,
                      !.maxr = maxr, !.withInit = wi, !.gb = gb]
       IN grp' = [args EXCEPT !.sgOut = [i \in 1..n |-> mine[0]]]
  /\ pc' = "done"
  /\ api' = "group"
  /\ op' = "sg_reduce"
  /\ outcome' = GroupOutcome("ok")
  /\ ctx' = "spir"
  /\ UNCHANGED <<call, issued, matVars, mem, copy, p2p, tf>>

\* ------------------------------------------------- joint_reduce (masked)
\* lanes of the sub-group taking part in a call (mask bits over these lanes)
SgLanes == 4
JrLanes == 0..(SgLanes - 1)
\* the array: element k holds JrMem(k); [first, last) lies inside it
JrMemLen == 5
JrFirsts == {0, 1}
JrMem(k) == k + 1
JrOps == {"plus", "maximum"}
JrInits == {7}
IntMin == -2147483647 - 1

\* sycl::known_identity_v<BinaryOperation, int>
KnownIdentity(o) == IF o = "plus" THEN 0 ELSE IntMin
JrOp(o, a, b) == IF o = "plus" THEN a + b ELSE IF a >= b THEN a ELSE b


\* mutant: (1 << (lid + 1)) - 1, the lane's own bit included
LowMaskInclusive(lid) == {{b \in 0..31 : b <= lid}}

\* (1 << lid) - 1 as a set of bits; at lid = 31, 1 << 31 overflows int
\* (undefined behaviour): the build may give 0x7FFFFFFF, 0 or all ones
LowMaskOutcomes(lid) ==
  IF lid < 31 THEN {{b \in 0..31 : b < lid}}
  ELSE {0..30, {}, 0..31}

\* a build's value of (1 << lid) - 1 for each executing lane
LowChoices(run) ==
  {f \in [run -> UNION {LowMaskOutcomes(l) : l \in run}] :
     \A l \in run : f[l] \in LowMaskOutcomes(l)}

\* popcount(mask_bits & low)
Popcount(bits) == Cardinality(bits)

\* __spirv group reduce with mask_bits (sycl::detail::calc): op over the
\* values of the lanes in the mask
RECURSIVE FoldLanes(_, _, _)
FoldLanes(o, f, S) ==
  IF S = {} THEN KnownIdentity(o)
  ELSE LET l == CHOOSE x \in S : \A y \in S : x <= y
       IN JrOp(o, f[l], FoldLanes(o, f, S \ {l}))
MaskedGroupReduce(o, partial, mask) == FoldLanes(o, partial, mask)

\* mask_bits values of a 32-lane sub-group, as their sets of set bits
Masks32 == {{}, {0}, {31}, {0, 31}, 0..31, {b \in 0..31 : b % 2 = 0},
            {b \in 0..31 : b % 2 = 1}}

\* ptrdiff_t offset = popcount(mask_bits & ((1 << lid) - 1)) in lane lid
JrOffset ==
  /\ pc = "idle"
  /\ \E mb \in Masks32, lid \in 0..31 :
     \E low \in LowMaskOutcomes(lid) :
       LET args == [NoGrp EXCEPT !.kind = "jr_offset", !.mask = mb,
                      !.lid = lid]
       IN grp' = [args EXCEPT !.offset = Popcount(mb \cap low)]
  /\ pc' = "done"
  /\ api' = "group"
  /\ op' = "jr_offset"
  /\ outcome' = GroupOutcome("ok")
  /\ ctx' = "spir"
  /\ UNCHANGED <<call, issued, matVars, mem, copy, p2p, tf>>

\* the elements lane's loop reads:
\* for (Ptr p = first + offset; p < last; p += stride)
\*   partial = binary_op(partial, *p);
\* (with stride 0 the loop reads first + offset over and over)
JrLoopReads(first, last, off, stride) ==
  IF stride = 0 THEN IF first + off < last THEN {first + off} ELSE {}
  ELSE {k \in first..(last - 1) :
          k >= first + off /\ (k - first - off) % stride = 0}

\* the loop never exits: p never moves and p < last keeps holding
JrLoopForever(first, last, off, stride) == stride = 0 /\ first + off < last

\* partial after the loop, from known_identity_v
JrPartial(o, reads) == FoldLanes(o, [k \in reads |-> JrMem(k)], reads)

\* joint_reduce(g, mask, first, last[, init], op) (masked): every executing
\* lane computes its offset, stride and partial, then all return
\* reduce_over_group(g, mask, partial[, init], binary_op).  The lanes
\* executing are the mask's lanes; with an empty mask, the one lane that
\* made the call.
JrCall ==
  /\ pc = "idle"
  /\ \E mask \in SUBSET JrLanes, caller \in JrLanes, first \in JrFirsts,
        o \in JrOps, wi \in BOOLEAN, init \in JrInits :
     \E last \in first..JrMemLen :
       /\ (mask # {} => caller \in mask)
       /\ LET run == mask \cup {caller} IN
          \E low \in LowChoices(run) :
          LET offs == [l \in run |-> Popcount(mask \cap low[l])]
              stride == Popcount(mask)
              reads == [l \in run |->
                          JrLoopReads(first, last, offs[l], stride)]
              partial == [l \in run |-> JrPartial(o, reads[l])]
              red == MaskedGroupReduce(o, partial, mask)
              forever == \E l \in run :
                           JrLoopForever(first, last, offs[l], stride)
              args == [NoGrp EXCEPT !.kind = "joint_reduce", !.mask = mask,
                         !.run = run, !.first = first, !.last = last,
                         !.opk = o, !.withInit = wi, !.init = init]
          IN /\ grp' = [args EXCEPT !.offs = offs, !.stride = stride,
                          !.visits = reads, !.partial = partial,
                          !.noReturn = forever,
                          !.jrOut = [l \in run |->
                                       IF wi THEN JrOp(o, init, red)
                                       ELSE red]]
             /\ outcome' = GroupOutcome(IF forever THEN "no_return"
                                        ELSE "ok")
  /\ pc' = "done"
  /\ api' = "group"
  /\ op' = "joint_reduce"
  /\ ctx' = "spir"
  /\ UNCHANGED <<call, issued, matVars, mem, copy, p2p, tf>>

\* ------------------------------------------------------------- leader
\* local ranges of a two-dimensional group (a sub_group is one-dimensional,
\* the case r0 = 1)
LdrR0 == 1..2
LdrR1 == 1..3
GroupKinds == {"group", "sub_group"}

\* sycl::detail::get_local_linear_id(g): row-major linearisation
LocalLinearId(i0, i1, r1) == i0 * r1 + i1


\* mutant: the last work-item leads
LeaderTestLast(lid, size) == lid = size - 1

\* return (linear_id == 0);
LeaderTest(lid, size) == lid = 0

\* leader(g) evaluated by every work-item of one group; off the device it
\* throws runtime_error(PI_INVALID_DEVICE)
Leader ==
  /\ pc = "idle"
  /\ \E gk \in GroupKinds, r0 \in LdrR0, r1 \in LdrR1, x \in Ctxs :
       /\ (gk = "sub_group" => r0 = 1)
       /\ LET items == {<<i0, i1>> : i0 \in 0..(r0 - 1), i1 \in 0..(r1 - 1)}
              args == [NoGrp EXCEPT !.kind = gk, !.size = r0 * r1]
          IN grp' = [args EXCEPT
                       !.ldr = [it \in items |->
                                 IF x = "host" THEN "throw"
                                 ELSE IF LeaderTest(
                                           LocalLinearId(it[1], it[2], r1),
                                           r0 * r1)
                                 THEN "true" ELSE "false"]]
       /\ outcome' = GroupOutcome(IF x = "host" THEN "runtime_error"
                                  ELSE "ok")
       /\ ctx' = x
  /\ pc' = "done"
  /\ api' = "group"
  /\ op' = "leader"
  /\ UNCHANGED <<call, issued, matVars, mem, copy, p2p, tf>>

\* ------------------------------------------------- HIP peer access
P2PFns == {"urUsmP2PEnablePeerAccessExp", "urUsmP2PDisablePeerAccessExp",
           "urUsmP2PPeerAccessGetInfoExp"}
\* ur_exp_peer_info_t values, and one value outside the enumeration
PeerInfos == {"UR_EXP_PEER_INFO_UR_PEER_ACCESS_SUPPORTED",
              "UR_EXP_PEER_INFO_UR_PEER_ATOMICS_SUPPORTED", "other"}
HipResults == {"hipSuccess", "hipErrorInvalidValue",
               "hipErrorPeerAccessAlreadyEnabled"}
\* context active on the calling thread before the call
PrevCtxs == {"none", "other_ctx"}

\* UR_CHECK_ERROR: a failing hipError_t is thrown as its ur_result_t
UrResult(hip) ==
  IF hip = "hipErrorInvalidValue" THEN "UR_RESULT_ERROR_INVALID_VALUE"
  ELSE "UR_RESULT_ERROR_UNKNOWN"

\* ScopedContext(commandDevice): the constructor makes the command device's
\* context active; the destructor reinstates the context found on entry
ScopedContextCtor(dev) == dev
ScopedContextDtor(prev) == prev

\* entry: result/ReturnValue set up, ScopedContext active(commandDevice)
P2PEnter ==
  /\ pc = "idle"
  /\ \E fn \in P2PFns, hip \in HipResults, prev \in PrevCtxs :
     \E prop \in IF fn = "urUsmP2PPeerAccessGetInfoExp" THEN PeerInfos
                 ELSE {"none"} :
       p2p' = [NoP2P EXCEPT !.fn = fn, !.prop = prop, !.hip = hip,
                            !.prev = prev,
                            !.active = ScopedContextCtor("command_ctx"),
                            !.stage = "scoped",
                            !.result = "UR_RESULT_SUCCESS"]
  /\ pc' = "p2p"
  /\ api' = "ur_hip"
  /\ op' = "p2p"
  /\ UNCHANGED <<ctx, call, outcome, issued, matVars, grp, mem, copy, tf>>

\* GetInfo: switch (propName)
\* mutant: the two attributes exchanged
P2PSwitchSwapped ==
  /\ pc = "p2p"
  /\ p2p.stage = "scoped"
  /\ p2p.fn = "urUsmP2PPeerAccessGetInfoExp"
  /\ p2p' = CASE p2p.prop = "UR_EXP_PEER_INFO_UR_PEER_ACCESS_SUPPORTED" ->
                   [p2p EXCEPT !.attr = "hipDevP2PAttrNativeAtomicSupported",
                               !.stage = "attr"]
              [] p2p.prop = "UR_EXP_PEER_INFO_UR_PEER_ATOMICS_SUPPORTED" ->
                   [p2p EXCEPT !.attr = "hipDevP2PAttrAccessSupported",
                               !.stage = "attr"]
              [] OTHER ->
                   [p2p EXCEPT !.result = "UR_RESULT_ERROR_INVALID_ENUMERATION",
                               !.stage = "exit"]
  /\ UNCHANGED <<pc, api, op, ctx, call, outcome, issued, matVars, grp, mem, copy,
                 tf>>

P2PSwitch ==
  /\ pc = "p2p"
  /\ p2p.stage = "scoped"
  /\ p2p.fn = "urUsmP2PPeerAccessGetInfoExp"
  /\ p2p' = CASE p2p.prop = "UR_EXP_PEER_INFO_UR_PEER_ACCESS_SUPPORTED" ->
                   [p2p EXCEPT !.attr = "hipDevP2PAttrAccessSupported",
                               !.stage = "attr"]
              [] p2p.prop = "UR_EXP_PEER_INFO_UR_PEER_ATOMICS_SUPPORTED" ->
                   [p2p EXCEPT !.attr = "hipDevP2PAttrNativeAtomicSupported",
                               !.stage = "attr"]
              [] OTHER ->
                   [p2p EXCEPT !.result = "UR_RESULT_ERROR_INVALID_ENUMERATION",
                               !.stage = "exit"]
  /\ UNCHANGED <<pc, api, op, ctx, call, outcome, issued, matVars, grp, mem, copy,
                 tf>>

\* UR_CHECK_ERROR(hipCtxEnablePeerAccess / hipCtxDisablePeerAccess /
\* hipDeviceGetP2PAttribute(...)); a failure throws and unwinds to the catch
\* mutant: a failed driver call is retried once
P2PDriverRetry ==
  /\ pc = "p2p"
  /\ \/ p2p.stage = "scoped" /\ p2p.fn # "urUsmP2PPeerAccessGetInfoExp"
     \/ p2p.stage = "attr"
  /\ p2p' = IF p2p.hip = "hipSuccess"
            THEN [p2p EXCEPT !.calls = @ + 1, !.stage = "called"]
            ELSE IF p2p.calls = 0
            THEN [p2p EXCEPT !.calls = @ + 1]
            ELSE [p2p EXCEPT !.calls = @ + 1, !.stage = "exit",
                             !.result = UrResult(p2p.hip)]
  /\ UNCHANGED <<pc, api, op, ctx, call, outcome, issued, matVars, grp, mem, copy,
                 tf>>

P2PDriver ==
  /\ pc = "p2p"
  /\ \/ p2p.stage = "scoped" /\ p2p.fn # "urUsmP2PPeerAccessGetInfoExp"
     \/ p2p.stage = "attr"
  /\ p2p' = IF p2p.hip = "hipSuccess"
            THEN [p2p EXCEPT !.calls = @ + 1, !.stage = "called"]
            ELSE [p2p EXCEPT !.calls = @ + 1, !.stage = "exit",
                             !.result = UrResult(p2p.hip)]
  /\ UNCHANGED <<pc, api, op, ctx, call, outcome, issued, matVars, grp, mem, copy,
                 tf>>

\* leaving the try block (normally, by return, or by the throw) destroys
\* `active`; then `return result`, `return err` or `return ReturnValue(value)`
\* mutant: the prior context is reinstated only on the success path
P2PLeaveRestoreOnSuccess ==
  /\ pc = "p2p"
  /\ p2p.stage \in {"called", "exit"}
  /\ p2p' = [p2p EXCEPT !.active = IF p2p.stage = "called"
                                  THEN ScopedContextDtor(p2p.prev)
                                  ELSE p2p.active,
                        !.stage = "returned",
                        !.written = p2p.stage = "called"
                                    /\ p2p.fn = "urUsmP2PPeerAccessGetInfoExp"]
  /\ pc' = "done"
  /\ UNCHANGED <<api, op, ctx, call, outcome, issued, matVars, grp, mem, copy, tf>>

P2PLeave ==
  /\ pc = "p2p"
  /\ p2p.stage \in {"called", "exit"}
  /\ p2p' = [p2p EXCEPT !.active = ScopedContextDtor(p2p.prev),
                        !.stage = "returned",
                        !.written = p2p.stage = "called"
                                    /\ p2p.fn = "urUsmP2PPeerAccessGetInfoExp"]
  /\ pc' = "done"
  /\ UNCHANGED <<api, op, ctx, call, outcome, issued, matVars, grp, mem, copy, tf>>

Next == Leader \/ JrOffset \/ JrCall \/ SgReduce \/ TfRound \/ AsyncCopy \/ P2PEnter \/ P2PSwitch \/ P2PDriver \/ P2PLeave \/
        TcLoadStore \/ TcLoad \/ TcStore \/ TcMad \/ UFill \/ ULoad \/ UStore \/ UMad

Spec == Init /\ [][Next]_vars


\* ================================================================ claims
TcMadOk == api = "tc" /\ op = "mad" /\ outcome = "ok"

\* C1: the layout operand of every tensorcore mma intrinsic is
\* get_layout_pair_id(LayoutA, LayoutB): (row,row)=0, (row,col)=1,
\* (col,row)=2, (col,col)=3, which is 2*get_layout_id(A)+get_layout_id(B)
\* with get_layout_id(row_major)=0 and get_layout_id(col_major)=1.
LayoutPairIdCanonical ==
  /\ LayoutId("row_major") = 0
  /\ LayoutId("col_major") = 1
  /\ TcMadOk =>
       /\ issued[1].lay = 2 * LayoutId(call.la) + LayoutId(call.lb)
       /\ issued[1].lay = CASE call.la = "row_major" /\ call.lb = "row_major" -> 0
                            [] call.la = "row_major" /\ call.lb = "col_major" -> 1
                            [] call.la = "col_major" /\ call.lb = "row_major" -> 2
                            [] call.la = "col_major" /\ call.lb = "col_major" -> 3

LayoutPairIdWitness ==
  TcMadOk /\ call.la = "col_major" /\ call.lb = "row_major"

\* element kind of the intrinsic that serves a logical element type
IntrTy(t) ==
  CASE t \in {"bfloat16", "uint16_t"} -> "bf16"
    [] t = "half" -> "f16"
    [] t = "int8_t" -> "s8"
    [] t = "uint8_t" -> "u8"
    [] t = "int32_t" -> "s32"
    [] t = "float" -> "f32"
    [] t = "double" -> "f64"

RoleOf(u) == IF u = "accumulator" THEN "c" ELSE u

\* an A tile is M x K, a B tile K x N, an accumulator M x N
ShapeFits(sh, u, r, c) ==
  CASE u = "a" -> sh[1] = r /\ sh[3] = c
    [] u = "b" -> sh[3] = r /\ sh[2] = c
    [] u = "accumulator" -> sh[1] = r /\ sh[2] = c

\* C2: on NVPTX, loading any declared tile (row/col layout) issues exactly
\* one load intrinsic whose element kind, role and shape match the tile, and
\* storing any declared accumulator tile issues exactly one store intrinsic
\* whose element kind and shape match.
LoadStoreComplete ==
  (/\ api = "tc" /\ op \in {"load", "store"} /\ ctx = "nvptx"
   /\ Resolves(call.t, call.use, call.r, call.c, call.layout)) =>
     /\ outcome = "ok"
     /\ Len(issued) = 1
     /\ issued[1].kind = IF op = "load" THEN "ld" ELSE "st"
     /\ issued[1].ty = IntrTy(call.t)
     /\ issued[1].role = RoleOf(call.use)
     /\ ShapeFits(issued[1].shape, call.use, call.r, call.c)

LoadStoreWitness ==
  /\ api = "tc" /\ op = "store" /\ outcome = "ok"
  /\ call.t = "half" /\ call.r = 8 /\ call.c = 32

\* C3: a tensorcore mad whose A, B and C tiles are declared either issues an
\* mma intrinsic or fails (does not compile); it never returns a D that no
\* instruction wrote.
MadNeverSilent ==
  (api = "tc" /\ op = "mad" /\ ctx = "nvptx") =>
     /\ outcome # "silent"
     /\ outcome = "ok" => Len(issued) = 1

\* C4: unified joint_matrix_mad with Ta # Tb fails with a type-mismatch error
\* on every shape and layout, and no hardware path is invoked.
UMadTypeMismatchFails ==
  (api = "unified" /\ op = "mad" /\ ctx = "nvptx" /\ call.t1 # call.tb) =>
     /\ outcome = "assert_type_mismatch"
     /\ issued = << >>

\* C5: every matrix operation of either API, outside an NVPTX device, fails
\* (an invalid-device runtime_error, or earlier, at compile time) before any
\* side effect, and never completes silently.
OpsFailOffDevice ==
  (/\ api \in {"tc", "unified"}
   /\ op \in {"fill", "load", "store", "mad", "load_store"}
   /\ pc = "done" /\ ctx # "nvptx" /\ outcome # "noresolve") =>
     /\ outcome \in {"invalid_device", "compile_error"}
     /\ issued = << >>
     /\ vA = call.a /\ vB = call.b /\ vC = call.cv /\ vD = call.d

Repacked16 == {"half", "bfloat16", "uint16_t"}
Bits(ft) ==
  CASE ft \in {"half", "bfloat16"} -> 16
    [] ft = "double" -> 64
    [] OTHER -> 32
\* number of logical 16-bit values a fragment holds
Slots16(key) ==
  LET d == FragOf(key.t, key.use, key.r, key.c) IN (d.n * Bits(d.ft)) \div 16

\* C6: every intrinsic operand coming from a half/bfloat16/uint16_t tile is
\* accessed as int32 words, as many as ceil(16-bit slot count / 2).
RepackInvariant ==
  (api = "tc" /\ outcome = "ok") =>
    \A i \in 1..Len(issued) : \A j \in 1..Len(issued[i].ops) :
      LET o == issued[i].ops[j] IN
        o.tile.t \in Repacked16 =>
          /\ o.view = "int32"
          /\ o.words = (Slots16(o.tile) + 1) \div 2

RepackWitness ==
  TcMadOk /\ call.t1 = "bfloat16" /\ call.m = 8

\* every accumulator operand of an intrinsic issued by a tensorcore call
AccOperands ==
  IF api = "tc" /\ outcome = "ok"
  THEN {o \in UNION {{issued[i].ops[j] : j \in 1..Len(issued[i].ops)} :
                      i \in 1..Len(issued)} :
          o.tile.use = "accumulator"}
  ELSE {}

\* C7 (original): accumulator fragments are stored in their logical type and
\* are never repacked at load, store or mad.
AccNeverRepacked ==
  \A o \in AccOperands :
    /\ FragOf(o.tile.t, "accumulator", o.tile.r, o.tile.c).ft = o.tile.t
    /\ o.view = "native"

\* C7 (amended): accumulator fragments are stored in their logical type; the
\* float, int32_t and double ones are passed to the intrinsics as they are,
\* the half ones are reinterpreted as int32 words, two halves per word.
AccLogicalStorage ==
  \A o \in AccOperands :
    LET d == FragOf(o.tile.t, "accumulator", o.tile.r, o.tile.c) IN
    /\ d.ft = o.tile.t
    /\ o.tile.t = "half" => o.view = "int32" /\ 2 * o.words = d.n
    /\ o.tile.t # "half" => o.view = "native" /\ o.words = d.n

AccWitness ==
  TcMadOk /\ call.t1 = "half" /\ call.t2 = "half" /\ call.m = 16

\* C8: for T1 = half on m16n16k16, m8n32k16 and m32n8k16, mad selects the
\* f16f16 intrinsic (C and D as int32 words) exactly when T2 = half and the
\* f32f32 intrinsic (native float C and D) exactly when T2 = float.
HalfAccSelectsNarrow ==
  (/\ api = "tc" /\ op = "mad" /\ ctx = "nvptx" /\ call.t1 = "half"
   /\ <<call.m, call.n, call.k>> \in {S16, S832, S328}
   /\ outcome # "noresolve") =>
     /\ (call.t2 = "half") <=>
          (/\ outcome = "ok" /\ issued[1].ty = "f16f16"
           /\ issued[1].ops[1].view = "int32" /\ issued[1].ops[4].view = "int32")
     /\ (call.t2 = "float") <=>
          (/\ outcome = "ok" /\ issued[1].ty = "f32f32"
           /\ issued[1].ops[1].view = "native" /\ issued[1].ops[4].view = "native")

HalfAccWitness ==
  TcMadOk /\ call.t1 = "half" /\ call.t2 = "half" /\ call.m = 32

\* C9: a mad that returns gives a D with C's descriptor and leaves A, B and C
\* holding the values they had before the call (both APIs).
MadFreshD ==
  (op = "mad" /\ outcome \in {"ok", "silent"}) =>
     /\ dDesc = cDesc
     /\ vA = call.a /\ vB = call.b /\ vC = call.cv

MadFreshDWitness ==
  api = "unified" /\ op = "mad" /\ outcome = "ok" /\ vD # vC

\* hardware tiles of the wmma shapes: A is M x K, B is K x N, C is M x N
MultTypes == {"half", "bfloat16", "uint16_t", "int8_t", "uint8_t"}
AccTypes == {"float", "half", "int32_t"}
HWTiles ==
  {Key(t, "a", sh[1], sh[3]) : t \in MultTypes, sh \in {S16, S832, S328}}
  \cup {Key(t, "b", sh[3], sh[2]) : t \in MultTypes, sh \in {S16, S832, S328}}
  \cup {Key(t, "accumulator", sh[1], sh[2]) : t \in AccTypes,
                                             sh \in {S16, S832, S328}}
  \cup {Key("double", "a", 8, 4), Key("double", "b", 4, 8),
        Key("double", "accumulator", 8, 8)}

\* tiles of the commented-out half/bfloat16 int32_t overloads
CommentedOut ==
  {Key("bfloat16", "a", 8, 16), Key("bfloat16", "b", 16, 32),
   Key("half", "a", 8, 16), Key("half", "b", 16, 32),
   Key("half", "accumulator", 8, 32),
   Key("bfloat16", "a", 32, 16), Key("bfloat16", "b", 16, 8),
   Key("half", "a", 32, 16), Key("half", "b", 16, 8),
   Key("half", "accumulator", 32, 8),
   Key("half", "a", 16, 16), Key("half", "b", 16, 16),
   Key("half", "accumulator", 16, 16)}

TcLoadKey == Key(call.t, call.use, call.r, call.c)

\* C10 (original): only hardware tiles with row/col layout resolve; packed
\* layouts and the commented-out half/bfloat16 int32 variants do not.
TileResolutionClosed ==
  (api = "tc" /\ op = "load") =>
     /\ outcome # "noresolve" =>
          call.layout \in RowCol /\ TcLoadKey \in HWTiles
     /\ TcLoadKey \in CommentedOut => outcome = "noresolve"

\* C10 (amended): only hardware tiles with row/col layout resolve (never a
\* packed layout); the tiles of the commented-out half/bfloat16 int32
\* variants do resolve, to the declarations with logical element storage.
TileResolution ==
  (api = "tc" /\ op = "load") =>
     /\ outcome # "noresolve" =>
          call.layout \in RowCol /\ TcLoadKey \in HWTiles
     /\ (TcLoadKey \in CommentedOut /\ call.layout \in RowCol) =>
          /\ outcome # "noresolve"
          /\ FragOf(call.t, call.use, call.r, call.c).ft = call.t

TileResolutionWitness ==
  /\ api = "tc" /\ op = "load" /\ outcome = "ok"
  /\ TcLoadKey \in CommentedOut /\ call.layout = "col_major"

\* C11: a tensorcore mad issues an intrinsic only for (M,K,N) in 16x16x16,
\* 8x16x32, 32x16x8 and 8x4x8 (double only), and the intrinsic's shape is
\* the (M,N,K) of its A (MxK), B (KxN) and C (MxN) tiles.
MadShapePartition ==
  TcMadOk =>
    /\ <<call.m, call.k, call.n>> \in
         {<<16, 16, 16>>, <<8, 16, 32>>, <<32, 16, 8>>, <<8, 4, 8>>}
    /\ issued[1].shape = <<call.m, call.n, call.k>>
    /\ (<<call.m, call.k, call.n>> = <<8, 4, 8>>) <=> (call.t1 = "double")

MadShapeWitness ==
  TcMadOk /\ call.m = 8 /\ call.n = 32

\* C12 (original): for half, bfloat16 and uint16_t tiles, load and store
\* convert the caller's stride (logical elements) to int32 words.
StrideConverted ==
  (/\ api = "tc" /\ op \in {"load", "store"} /\ outcome = "ok"
   /\ call.t \in Repacked16) =>
     issued[1].ldm = call.stride \div 2

\* C12 (amended): load and store pass the caller's stride, in logical
\* elements, unchanged to the intrinsic for every element type, repacked
\* half/bfloat16/uint16_t tiles included.
StridePassedThrough ==
  (api = "tc" /\ op \in {"load", "store"} /\ outcome = "ok") =>
     /\ Len(issued) = 1
     /\ issued[1].ldm = call.stride

StrideWitness ==
  /\ api = "tc" /\ op = "load" /\ outcome = "ok"
  /\ call.t = "bfloat16" /\ call.stride = 32

\* C15: every load/store intrinsic gets get_layout_id(Layout); every mma
\* intrinsic gets get_layout_pair_id(LayoutA, LayoutB) and satf = 0; the
\* accumulator layout LayoutC never changes the mma selected or its operands.
LayoutOperands ==
  /\ (api = "tc" /\ op \in {"load", "store"} /\ outcome = "ok") =>
       issued[1].lay = LayoutId(call.layout)
  /\ TcMadOk =>
       /\ issued[1].lay = LayoutPairId(call.la, call.lb)
       /\ issued[1].satf = 0
       /\ \A l2 \in RowCol :
            MadSel(call.t1, call.t2, call.m, call.k, call.n, call.la, call.lb,
                   l2).seq = issued

LayoutOperandsWitness ==
  TcMadOk /\ call.lc = "col_major" /\ call.la = "row_major"

\* C14: for every accumulator tile, stride and layout, storing the fragment
\* joint_matrix_load filled from X, with the same layout and stride,
\* writes X back bit for bit (float, int32_t, double and repacked half).
LoadStoreRoundTrip ==
  (api = "tc" /\ op = "load_store") =>
     /\ outcome = "ok"
     /\ mem = call.v

RoundTripWitness ==
  /\ api = "tc" /\ op = "load_store" /\ outcome = "ok"
  /\ call.t = "half" /\ call.layout = "col_major" /\ call.v = 1

\* C16: while a peer-access call runs, the command device's context is
\* active; on every return (success, driver error, invalid enumeration) the
\* context active before the call is active again.
P2PContextScoped ==
  /\ p2p.stage \in {"scoped", "attr", "called", "exit"} =>
       p2p.active = "command_ctx"
  /\ p2p.stage = "returned" => p2p.active = p2p.prev

P2PContextWitness ==
  /\ p2p.stage = "returned" /\ p2p.prev = "other_ctx"
  /\ p2p.result # "UR_RESULT_SUCCESS"

\* C17: each peer-access call issues its HIP driver call at most once; when
\* it fails, the translated error is returned without retry, and GetInfo
\* writes nothing to pPropValue / pPropSizeRet.
P2PNoRetry ==
  /\ p2p.calls <= 1
  /\ (p2p.stage = "returned" /\ p2p.calls = 1 /\ p2p.hip # "hipSuccess") =>
       /\ p2p.result = UrResult(p2p.hip)
       /\ ~p2p.written

P2PNoRetryWitness ==
  /\ p2p.stage = "returned" /\ p2p.fn = "urUsmP2PPeerAccessGetInfoExp"
  /\ p2p.calls = 1 /\ p2p.hip = "hipErrorInvalidValue"

\* C18: async_group_copy never moves booleans as booleans: a scalar or
\* vector bool copy, masked or not, reaches the non-bool overload with the
\* same memory viewed as uint8_t (or a uint8_t vector of the same width),
\* with the same element count, stride and mask.
BoolCopyAsBytes ==
  op = "async_copy" =>
    /\ copy.t.base # "bool"
    /\ copy.n = copy.argN
    /\ copy.stride = (IF copy.argStride = 0 THEN 1 ELSE copy.argStride)
    /\ copy.prim = CopyPrim(copy.dir, copy.masked)
    /\ IsBool(copy.src) =>
         /\ copy.t = [base |-> "uint8_t", width |-> copy.src.width]
         /\ copy.hops = 1
    /\ ~IsBool(copy.src) => copy.t = copy.src /\ copy.hops = 0

BoolCopyWitness ==
  /\ op = "async_copy" /\ copy.src.base = "bool" /\ copy.src.width = 4
  /\ copy.masked /\ copy.mask = 3 /\ copy.argN = 2 /\ copy.argStride = 2


\* C19: the host path of round_to_tf32 rounds the low 13 bits up or down
\* and zeros them: the result's low 13 bits are zero and it is the input
\* with its low 13 bits cleared, or that plus 0x2000 modulo 2^32.
Tf32HostRounding ==
  op = "round_to_tf32" =>
    /\ tf.host.lo = 0
    /\ tf.host \in {Bits32(tf.a.hi, 0), Bits32((tf.a.hi + 1) % Hi19, 0)}

Tf32HostWitness ==
  /\ op = "round_to_tf32" /\ tf.a.lo >= 4096
  /\ tf.host = Bits32((tf.a.hi + 1) % Hi19, 0)

\* C20: the host path agrees with the device path for every bit pattern
\* (NaN stays NaN, overflow goes to infinity with its sign).
Tf32HostMatchesDevice ==
  op = "round_to_tf32" =>
    /\ tf.host = tf.device
    /\ IsNaN32(tf.a) => IsNaN32(tf.host)

\* C21: the non-native sub_group reduce returns, in every lane, the
\* in-order fold x_0 op ... op x_{n-1} over the n active lanes (any n up to
\* the maximum range, also not a power of two); with init, op(init, fold).
SgFold(n) == [k \in 1..n |-> k - 1]

SgReduceFold ==
  op = "sg_reduce" =>
    \A i \in 1..grp.n :
      grp.sgOut[i] = IF grp.withInit THEN SgOp(SgInit, SgFold(grp.n))
                     ELSE SgFold(grp.n)

SgReduceWitness ==
  /\ op = "sg_reduce" /\ grp.n = 6 /\ grp.maxr = 8 /\ grp.withInit
  /\ grp.sgOut[6] = <<-1, 0, 1, 2, 3, 4, 5>>

JrOffsetCount ==
  op = "jr_offset" =>
    grp.offset = Cardinality({b \in grp.mask : b < grp.lid})

\* C24: the accumulation loop of masked joint_reduce terminates for every
\* mask and every range, an empty mask (stride 0) with first < last and a
\* lane whose offset is already at or past last included.
JrTerminates == op = "joint_reduce" => ~grp.noReturn

\* C25: masked joint_reduce with init returns init op (fold of [first,
\* last)) in every participating lane, and without init the fold alone,
\* for a commutative associative op whose identity seeds each partial.
RECURSIVE JrFold(_, _, _)
JrFold(o, a, b) ==
  IF a >= b THEN KnownIdentity(o) ELSE JrOp(o, JrMem(a), JrFold(o, a + 1, b))

JrResult ==
  (op = "joint_reduce" /\ grp.mask # {}) =>
    /\ outcome = "ok"
    /\ \A l \in grp.mask :
         grp.jrOut[l] =
           IF grp.withInit
           THEN JrOp(grp.opk, grp.init, JrFold(grp.opk, grp.first, grp.last))
           ELSE JrFold(grp.opk, grp.first, grp.last)

\* C26: GetInfo with an unsupported propName returns
\* UR_RESULT_ERROR_INVALID_ENUMERATION without calling
\* hipDeviceGetP2PAttribute or writing the outputs; for the two supported
\* names it queries the matching attribute and returns the value only when
\* the query succeeds.
P2PGetInfoDispatch ==
  (p2p.fn = "urUsmP2PPeerAccessGetInfoExp" /\ p2p.stage = "returned") =>
    /\ p2p.prop = "other" =>
         /\ p2p.result = "UR_RESULT_ERROR_INVALID_ENUMERATION"
         /\ p2p.calls = 0
         /\ ~p2p.written
    /\ p2p.prop = "UR_EXP_PEER_INFO_UR_PEER_ACCESS_SUPPORTED" =>
         p2p.attr = "hipDevP2PAttrAccessSupported" /\ p2p.calls = 1
    /\ p2p.prop = "UR_EXP_PEER_INFO_UR_PEER_ATOMICS_SUPPORTED" =>
         p2p.attr = "hipDevP2PAttrNativeAtomicSupported" /\ p2p.calls = 1
    /\ p2p.prop # "other" => (p2p.written <=> p2p.hip = "hipSuccess")

P2PGetInfoWitness ==
  /\ p2p.fn = "urUsmP2PPeerAccessGetInfoExp" /\ p2p.stage = "returned"
  /\ p2p.prop = "UR_EXP_PEER_INFO_UR_PEER_ATOMICS_SUPPORTED" /\ p2p.written

\* C27: leader(g) returns true in exactly one work-item of any
\* group, the one with local linear id 0.
LeaderOf(it) == grp.ldr[it] = "true"
LeaderFirst(it) == it[1] = 0 /\ it[2] = 0

LeaderUnique ==
  op = "leader" =>
    /\ Cardinality({it \in DOMAIN grp.ldr : LeaderOf(it)}) = 1
    /\ \A it \in DOMAIN grp.ldr : LeaderOf(it) <=> LeaderFirst(it)

\* C27 (as amended): on the device leader(g) returns true in exactly one
\* work-item of the group, the one with local linear id 0; on the host
\* every work-item's call throws runtime_error(PI_INVALID_DEVICE).
LeaderUniqueOnDevice ==
  op = "leader" =>
    /\ ctx # "host" =>
         /\ Cardinality({it \in DOMAIN grp.ldr : LeaderOf(it)}) = 1
         /\ \A it \in DOMAIN grp.ldr : LeaderOf(it) <=> LeaderFirst(it)
    /\ ctx = "host" => \A it \in DOMAIN grp.ldr : grp.ldr[it] = "throw"

LeaderWitness ==
  op = "leader" /\ ctx = "nvptx" /\ grp.kind = "group" /\ grp.size = 6

====
